---------------------------- MODULE Spec2Model ----------------------------
(***************************************************************************)
(* A model of the NCCN guideline curation and retrieval pipeline:          *)
(*   src/final_extract.py     interactive_run, launch_editor,              *)
(*                            append_to_output, extract_text_with_margins  *)
(*   src/Automated_script.py  process_pages, append_to_output              *)
(*   src/app.py               chunk_text, embed_texts,                     *)
(*                            build_and_save_index, load_index, start-up   *)
(*                                                                         *)
(* Text is a sequence of tokens.  A token is a whole word ("PAGE", "===",  *)
(* a decimal numeral, ...) or one whitespace character (" " or "\n"), so   *)
(* str.strip, str.split and the split on the page delimiter are computed   *)
(* on the text and not assumed.                                            *)
(***************************************************************************)
EXTENDS Integers, Sequences, FiniteSets, TLC

VARIABLES
    pc,             \* position of the running program
    page,           \* interactive_run / process_pages: zero-based page cursor
    total_pages,    \* len(reader.pages)
    action,         \* interactive_run: last top-menu input, normalised
    choice,         \* interactive_run: last sub-loop input (choice / post)
    confirm,        \* interactive_run: last answer to "Accept edited ... (y/n)"
    margins,        \* interactive_run: margin_left/top/right/bottom
    entries,        \* interactive_run: new_top/new_bottom/new_left/new_right
    clip_rect,      \* interactive_run: clip rectangle of the last extraction
    text,           \* interactive_run: text of the last raw extraction
    output,         \* interactive_run: last vision-model output
    edited,         \* interactive_run: text read back by launch_editor
    tmp_files,      \* number of launch_editor temp files left on disk
    output_file,    \* the corpus file (OUTPUT_PATH / TEXT_FILE), as tokens
    calls,          \* history: the (page_num, content) of each append call
    start_page,     \* interactive_run / process_pages: the start_page argument
    end_page,       \* process_pages: its end_page argument
    start_idx,      \* process_pages: first zero-based index of the range
    end_idx,        \* process_pages: last zero-based index of the range
    log,            \* process_pages: what it printed, one record per line
    faiss_file,     \* app.py: FAISS_INDEX_FILE on disk
    chunks_file,    \* app.py: CHUNKS_FILE on disk
    index,          \* app.py: the in-memory index (its rows)
    chunks,         \* app.py: the in-memory chunk list
    path,           \* app.py: branch the last start took: "load" or "build"
    error,          \* app.py: how the last start ended
    starts,         \* app.py: number of runs of the start-up so far
    walk_size,      \* chunk_text: the configured CHUNK_SIZE of a walk
    walk_overlap,   \* chunk_text: the configured CHUNK_OVERLAP of a walk
    walk_words,     \* chunk_text: words, the words of the page being windowed
    walk_start,     \* chunk_text: start, where the next window begins
    idxs,           \* retrieve: the row labels index.search returned
    results,        \* retrieve: the chunks it returned
    question,       \* app.py: the question last asked
    page_rect,      \* page.rect of the page being clipped
    image,          \* size of the page image convert_from_path rendered
    crop_box        \* render_clipped_image: the pixel crop box

vars == << pc, page, total_pages, action, choice, confirm, margins, entries, clip_rect,
           text, output, edited, tmp_files, output_file, calls, start_page,
           end_page, start_idx, end_idx, log, faiss_file, chunks_file, index, chunks, path, error, starts,
           walk_size, walk_overlap, walk_words, walk_start, idxs, results, question,
           page_rect, image, crop_box >>

\* The variables of one program, left alone by the others.
reviewVars == << action, choice, confirm, margins, entries, clip_rect, text, output, edited, tmp_files >>
batchVars == << start_page, end_page, start_idx, end_idx, log >>
appVars == << faiss_file, chunks_file, index, chunks, path, error, starts >>
walkVars == << walk_size, walk_overlap, walk_words, walk_start >>
queryVars == << idxs, results, question >>
geomVars == << page_rect, image, crop_box >>

---------------------------------------------------------------------------
(* Bounds of the model. *)

MaxPages == 2
MaxTmp == 1
MaxCalls == 2
MaxBatchPages == 3
MaxStarts == 3
MaxSize == 3
MaxWords == 4
MaxWindows == 6
MaxRows == 11

---------------------------------------------------------------------------
(* Text utilities: Python's str methods on token sequences. *)

IsSpace(t) == t \in {" ", "\n"}

RECURSIVE FirstWord(_, _)
FirstWord(s, i) ==
    IF i > Len(s) \/ ~IsSpace(s[i]) THEN i ELSE FirstWord(s, i + 1)

RECURSIVE LastWord(_, _)
LastWord(s, i) ==
    IF i < 1 \/ ~IsSpace(s[i]) THEN i ELSE LastWord(s, i - 1)

\* str.strip(): drop leading and trailing whitespace.
strip(s) == SubSeq(s, FirstWord(s, 1), LastWord(s, Len(s)))

\* str.split(): the whitespace-separated words.
split(s) == SelectSeq(s, LAMBDA t : ~IsSpace(t))

\* " ".join(words)
RECURSIVE join(_)
join(words) ==
    IF Len(words) <= 1 THEN words
    ELSE << Head(words), " " >> \o join(Tail(words))

\* input(...).strip().lower() on the lines an operator may type.
strip_lower(line) ==
    CASE line = " S " -> "s"
      [] line = "Q "  -> "q"
      [] line = " A"  -> "a"
      [] line = "RE"  -> "re"
      [] line = "Y"   -> "y"
      [] OTHER        -> line

\* The lines the operator may type at the top menu, at a review prompt and
\* at a save-or-discard prompt; "x" and "m" (in flowchart mode) stand for
\* what the prompt does not recognise.
TopLines == { "s", " S ", "r", "f", "q", "Q ", "x" }
ReviewLines == { "a", " A", "m", "e", "re", "RE", "s", "q", "x" }
ConfirmLines == { "y", "Y", "n" }

---------------------------------------------------------------------------
(* The corpus store. *)

START_MARK(page_num) == << "===", " ", "PAGE", " ", ToString(page_num), " ", "===" >>
END_MARK == << "===", " ", "END", " ", "PAGE", " ", "===" >>

\* The mutant writes the file in "w" mode: the block replaces the file.
append_to_output_truncating(file, page_num, content) ==
    << "\n", "\n" >> \o START_MARK(page_num) \o << "\n" >>
        \o strip(content) \o << "\n" >>
        \o END_MARK \o << "\n" >>

\* append_to_output: the file after the three writes in append mode.
append_to_output(file, page_num, content) ==
    file \o << "\n", "\n" >> \o START_MARK(page_num) \o << "\n" >>
         \o strip(content) \o << "\n" >>
         \o END_MARK \o << "\n" >>

---------------------------------------------------------------------------
(* Page geometry and direct text extraction (final_extract.py). *)

\* page.rect of the source document's pages (US Letter, in points).
PAGE_RECT == [x0 |-> 0, y0 |-> 0, x1 |-> 612, y1 |-> 792]

\* The selectable text of a page: a running header, a body line that names
\* the page, and a footer, each at the point where it starts.
PageLines(page_num) ==
    << [x |-> 36, y |-> 40,  words |-> << "NCCN", " ", "Guidelines" >>],
       [x |-> 36, y |-> 400, words |-> << "body", " ", ToString(page_num + 1) >>],
       [x |-> 36, y |-> 775, words |-> << "Version", " ", "2025" >>] >>

InClip(clip, ln) ==
    /\ clip.x0 <= ln.x /\ ln.x < clip.x1
    /\ clip.y0 <= ln.y /\ ln.y < clip.y1

\* page.get_text("text", clip=...): the lines inside the rectangle, each
\* ended by a newline; a rectangle that holds no line gives "".
get_text(page_num, clip) ==
    LET L == PageLines(page_num)
        Part(i) == IF InClip(clip, L[i]) THEN L[i].words \o << "\n" >> ELSE << >>
    IN  Part(1) \o Part(2) \o Part(3)

\* A mutant of clipped_rect: the right and bottom margins are exchanged.
clipped_rect_exchanged(rect, margin_left, margin_top, margin_right, margin_bottom) ==
    [x0 |-> rect.x0 + margin_left,
     y0 |-> rect.y0 + margin_top,
     x1 |-> rect.x1 - margin_bottom,
     y1 |-> rect.y1 - margin_right]

\* Lines 35-40: fitz.Rect keeps the four numbers it is given, whatever
\* their order.
clipped_rect(rect, margin_left, margin_top, margin_right, margin_bottom) ==
    [x0 |-> rect.x0 + margin_left,
     y0 |-> rect.y0 + margin_top,
     x1 |-> rect.x1 - margin_right,
     y1 |-> rect.y1 - margin_bottom]

\* extract_text_with_margins: (text, clip_rect).
extract_text_with_margins(page_num, margin_left, margin_top, margin_right, margin_bottom) ==
    LET rect == PAGE_RECT
        clipped == clipped_rect(rect, margin_left, margin_top, margin_right, margin_bottom)
    IN  [text |-> get_text(page_num, clipped), clip_rect |-> clipped]

Extract(page_num, m) ==
    extract_text_with_margins(page_num, m.left, m.top, m.right, m.bottom)

\* The defaults interactive_run sets on entering each mode.
RawDefaults == [left |-> 0, right |-> 0, top |-> 80, bottom |-> 30]
FlowDefaults == [left |-> 0, right |-> 0, top |-> 60, bottom |-> 30]

\* What the operator may type at each margin prompt (already stripped):
\* nothing, an integer, or something that is no integer.
TopEntries == { "", "770" }
BottomEntries == { "", "-5", "x" }
LeftEntries == { "", "700" }
RightEntries == { "", "x" }

\* int(s): the value, or ValueError for a string that is no integer.
IsIntString(s) == s \in { "770", "700", "-5" }
int(s) == CASE s = "770" -> 770 [] s = "700" -> 700 [] s = "-5" -> 0 - 5

\* Lines 179-188: the four conversions in order top, bottom, left, right;
\* the first ValueError ends the try block and keeps what was assigned.
ModifyMargins(m, new_top, new_bottom, new_left, new_right) ==
    LET Set(mm, f, e) == IF e = "" THEN mm ELSE [mm EXCEPT ![f] = int(e)]
        Bad(e) == e # "" /\ ~IsIntString(e)
        m1 == Set(m, "top", new_top)
        m2 == Set(m1, "bottom", new_bottom)
        m3 == Set(m2, "left", new_left)
        m4 == Set(m3, "right", new_right)
    IN  IF Bad(new_top) THEN m
        ELSE IF Bad(new_bottom) THEN m1
        ELSE IF Bad(new_left) THEN m2
        ELSE IF Bad(new_right) THEN m3
        ELSE m4

---------------------------------------------------------------------------
(* The scoped editor session (final_extract.py, launch_editor). *)

\* Where a call of launch_editor may fail.
EditorFaults == { "none", "create", "write", "spawn", "read", "unlink" }

\* What the editor may leave in the file: the text untouched or a rewrite.
EditorSaves(initial_text) ==
    { initial_text, << "fixed", " ", "text", "\n" >> }

\* launch_editor(initial_text) when `fault` strikes and the editor saves
\* `saved`: whether it raised, what it returned, and how many temp files
\* it left behind.
launch_editor(initial_text, fault, saved) ==
    CASE fault = "create" ->   \* NamedTemporaryFile raises: nothing created
            [raised |-> TRUE, final_text |-> << >>, left |-> 0]
      [] fault = "write" ->    \* tf.write raises; finally closes; no unlink
            [raised |-> TRUE, final_text |-> << >>, left |-> 1]
      [] fault = "spawn" ->    \* subprocess.call raises: editor not found
            [raised |-> TRUE, final_text |-> << >>, left |-> 1]
      [] fault = "read" ->     \* open/read raises after the editor exited
            [raised |-> TRUE, final_text |-> << >>, left |-> 1]
      [] fault = "unlink" ->   \* os.unlink raises and is swallowed
            [raised |-> FALSE, final_text |-> saved, left |-> 1]
      [] OTHER ->
            [raised |-> FALSE, final_text |-> saved, left |-> 0]

---------------------------------------------------------------------------
(* The vision collaborator (invoke_claude_image). *)

\* Text the model may return for a page image ("" stands for a reply
\* without text and for a failed call).
LLMOutputs == { << "\n", "flow", " ", "text", " " >> }

---------------------------------------------------------------------------
(* Initial values of the variables a program does not use. *)

NoMargins == [left |-> 0, right |-> 0, top |-> 0, bottom |-> 0]
NoRect == [x0 |-> 0, y0 |-> 0, x1 |-> 0, y1 |-> 0]
NoEntries == [top |-> "", bottom |-> "", left |-> "", right |-> ""]
Absent == [state |-> "absent"]

ReviewIdle ==
    /\ action = "" /\ choice = "" /\ confirm = ""
    /\ margins = NoMargins /\ entries = NoEntries /\ clip_rect = NoRect
    /\ text = << >> /\ output = << >> /\ edited = << >>
    /\ tmp_files = 0

BatchIdle ==
    /\ end_page = 0
    /\ start_idx = 0 /\ end_idx = 0 - 1 /\ log = << >>

AppIdle ==
    /\ faiss_file = Absent /\ chunks_file = Absent
    /\ index = << >> /\ chunks = << >>
    /\ path = "" /\ error = "" /\ starts = 0

WalkIdle ==
    /\ walk_size = 0 /\ walk_overlap = 0 /\ walk_words = << >> /\ walk_start = 0

QueryIdle ==
    /\ idxs = << >> /\ results = << >> /\ question = << >>

GeomIdle ==
    /\ page_rect = NoRect /\ image = [width |-> 0, height |-> 0] /\ crop_box = NoRect

\* The programs that are not running.
OthersIdle == WalkIdle /\ QueryIdle /\ GeomIdle

---------------------------------------------------------------------------
(* interactive_run (final_extract.py, lines 132-302).                      *)
(* pc is the input() call the program is blocked on: "TopMenu" (line 142), *)
(* "RawReview" (166), "RawConfirm" (196), "FlowReview" (262),              *)
(* "FlowConfirm" (271); "Done" once interactive_run has returned and       *)
(* "Crashed" once an exception has left it.                                *)

\* Lines 133-138: the cursor starts at max(1, start_page) - 1 and the loop
\* is entered only while page < total_pages.
InitInteractive ==
    /\ total_pages \in 1..MaxPages
    /\ start_page \in 0..(MaxPages + 1)
    /\ page = (IF start_page > 1 THEN start_page ELSE 1) - 1
    /\ pc = IF page < total_pages THEN "TopMenu" ELSE "Done"
    /\ output_file = << >> /\ calls = << >>
    /\ ReviewIdle /\ BatchIdle /\ AppIdle /\ OthersIdle

\* The operator types a line that normalises to v.
Typed(Lines, v) == \E line \in Lines : strip_lower(line) = v

\* page += 1; continue: the while condition decides what comes next.
\* A mutant of Advance: the cursor is left where it is.
Advance_staying ==
    /\ page' = page
    /\ pc' = IF page < total_pages THEN "TopMenu" ELSE "Done"

Advance ==
    /\ page' = page + 1
    /\ pc' = IF page + 1 < total_pages THEN "TopMenu" ELSE "Done"

\* The commit of one block for the page under review.
Commit(content) ==
    /\ output_file' = append_to_output(output_file, page + 1, content)
    /\ calls' = Append(calls, << page + 1, content >>)

\* The head of the raw sub-loop (line 160): extract with margins m.
ReExtract(m) ==
    /\ text' = Extract(page, m).text
    /\ clip_rect' = Extract(page, m).clip_rect

NoCommit == UNCHANGED << output_file, calls >>
Others == UNCHANGED << total_pages, batchVars, appVars, walkVars, queryVars, geomVars >>

\* Lines 144-146.
TopQuit ==
    /\ pc = "TopMenu" /\ Typed(TopLines, "q")
    /\ action' = "q" /\ pc' = "Done"
    /\ UNCHANGED << page, choice, confirm, margins, entries, clip_rect, text, output, edited, tmp_files >>
    /\ NoCommit /\ Others

\* Lines 147-149.
TopSkip ==
    /\ pc = "TopMenu" /\ Typed(TopLines, "s")
    /\ action' = "s" /\ Advance
    /\ UNCHANGED << choice, confirm, margins, entries, clip_rect, text, output, edited, tmp_files >>
    /\ NoCommit /\ Others

\* A mutant of TopRaw: the defaults are set once, before the page loop, so
\* a later page starts with the margins the last review left.
TopRaw_keeping ==
    /\ pc = "TopMenu" /\ Typed(TopLines, "r")
    /\ action' = "r"
    /\ margins' = (IF margins = NoMargins THEN RawDefaults ELSE margins)
    /\ ReExtract(margins')
    /\ pc' = "RawReview"
    /\ UNCHANGED << page, choice, confirm, entries, output, edited, tmp_files >>
    /\ NoCommit /\ Others

\* Lines 152-160: raw mode entered with the default margins.
TopRaw ==
    /\ pc = "TopMenu" /\ Typed(TopLines, "r")
    /\ action' = "r" /\ margins' = RawDefaults /\ ReExtract(RawDefaults)
    /\ pc' = "RawReview"
    /\ UNCHANGED << page, choice, confirm, entries, output, edited, tmp_files >>
    /\ NoCommit /\ Others

\* Lines 224-259: flowchart mode; rendering and encoding are outside any
\* try block, the model call is inside one and yields "" when it fails.
TopFlowchart ==
    /\ pc = "TopMenu" /\ Typed(TopLines, "f")
    /\ action' = "f" /\ margins' = FlowDefaults
    /\ clip_rect' = Extract(page, FlowDefaults).clip_rect
    /\ \E render_ok \in BOOLEAN :
          IF render_ok
          THEN /\ output' \in LLMOutputs \cup { << >> }
               /\ pc' = "FlowReview"
          ELSE /\ output' = output
               /\ pc' = "Crashed"
    /\ UNCHANGED << page, choice, confirm, entries, text, edited, tmp_files >>
    /\ NoCommit /\ Others

\* Lines 301-302: any other input; the loop asks again.
TopUnknown ==
    /\ pc = "TopMenu"
    /\ \E line \in TopLines :
          /\ strip_lower(line) \notin { "q", "s", "r", "f" }
          /\ action' = strip_lower(line)
    /\ UNCHANGED << pc, page, choice, confirm, margins, entries, clip_rect, text, output, edited, tmp_files >>
    /\ NoCommit /\ Others

\* Lines 168-171.
RawAccept ==
    /\ pc = "RawReview" /\ Typed(ReviewLines, "a")
    /\ choice' = "a" /\ Commit(text) /\ Advance
    /\ UNCHANGED << entries, action, confirm, margins, clip_rect, text, output, edited, tmp_files >>
    /\ Others

\* Lines 173-189.
RawModifyMargins ==
    /\ pc = "RawReview" /\ Typed(ReviewLines, "m")
    /\ choice' = "m"
    /\ \E new_top \in TopEntries, new_bottom \in BottomEntries,
          new_left \in LeftEntries, new_right \in RightEntries :
          /\ margins' = ModifyMargins(margins, new_top, new_bottom, new_left, new_right)
          /\ ReExtract(margins')
    /\ UNCHANGED << pc, page, action, confirm, entries, output, edited, tmp_files >>
    /\ NoCommit /\ Others

\* Lines 191-195: the editor session; an exception of launch_editor leaves
\* interactive_run.
RawEdit ==
    /\ pc = "RawReview" /\ Typed(ReviewLines, "e")
    /\ choice' = "e"
    /\ \E fault \in EditorFaults, saved \in EditorSaves(text) :
          LET r == launch_editor(text, fault, saved)
          IN  /\ tmp_files + r.left <= MaxTmp
              /\ tmp_files' = tmp_files + r.left
              /\ IF r.raised
                 THEN edited' = edited /\ pc' = "Crashed"
                 ELSE edited' = r.final_text /\ pc' = "RawConfirm"
    /\ UNCHANGED << entries, page, action, confirm, margins, clip_rect, text, output >>
    /\ NoCommit /\ Others

\* Lines 196-199.
RawConfirmSave ==
    /\ pc = "RawConfirm" /\ Typed(ConfirmLines, "y")
    /\ confirm' = "y" /\ Commit(edited) /\ Advance
    /\ UNCHANGED << action, choice, margins, entries, clip_rect, text, output, edited, tmp_files >>
    /\ Others

\* Lines 200-202.
RawConfirmDiscard ==
    /\ pc = "RawConfirm"
    /\ \E line \in ConfirmLines :
          /\ strip_lower(line) # "y"
          /\ confirm' = strip_lower(line)
    /\ ReExtract(margins) /\ pc' = "RawReview"
    /\ UNCHANGED << page, action, choice, margins, entries, output, edited, tmp_files >>
    /\ NoCommit /\ Others

\* Lines 204-206.
RawReextract ==
    /\ pc = "RawReview" /\ Typed(ReviewLines, "re")
    /\ choice' = "re" /\ ReExtract(margins)
    /\ UNCHANGED << entries, pc, page, action, confirm, margins, output, edited, tmp_files >>
    /\ NoCommit /\ Others

\* A mutant of RawSkipPage: skipping the page saves the extracted text.
RawSkipPage_saving ==
    /\ pc = "RawReview" /\ Typed(ReviewLines, "s")
    /\ choice' = "s" /\ Commit(text) /\ Advance
    /\ UNCHANGED << entries, action, confirm, margins, clip_rect, text, output, edited, tmp_files >>
    /\ Others

\* Lines 208-210 and 220-221.
RawSkipPage ==
    /\ pc = "RawReview" /\ Typed(ReviewLines, "s")
    /\ choice' = "s" /\ Advance
    /\ UNCHANGED << entries, action, confirm, margins, clip_rect, text, output, edited, tmp_files >>
    /\ NoCommit /\ Others

\* A mutant of RawQuitMode: a break where the code returns, which leaves
\* the sub-loop and moves on to the next page.
RawQuitMode_breaking ==
    /\ pc = "RawReview" /\ Typed(ReviewLines, "q")
    /\ choice' = "q" /\ Advance
    /\ UNCHANGED << entries, action, confirm, margins, clip_rect, text, output, edited, tmp_files >>
    /\ NoCommit /\ Others

\* Lines 212-214: return.
RawQuitMode ==
    /\ pc = "RawReview" /\ Typed(ReviewLines, "q")
    /\ choice' = "q" /\ pc' = "Done"
    /\ UNCHANGED << entries, page, action, confirm, margins, clip_rect, text, output, edited, tmp_files >>
    /\ NoCommit /\ Others

\* Lines 216-218.
RawUnknown ==
    /\ pc = "RawReview"
    /\ \E line \in ReviewLines :
          /\ strip_lower(line) \notin { "a", "m", "e", "re", "s", "q" }
          /\ choice' = strip_lower(line)
    /\ ReExtract(margins)
    /\ UNCHANGED << entries, pc, page, action, confirm, margins, output, edited, tmp_files >>
    /\ NoCommit /\ Others

\* Lines 263-266.
FlowAccept ==
    /\ pc = "FlowReview" /\ Typed(ReviewLines, "a")
    /\ choice' = "a" /\ Commit(output) /\ Advance
    /\ UNCHANGED << action, confirm, margins, entries, clip_rect, text, output, edited, tmp_files >>
    /\ Others

\* Lines 267-270.
FlowEdit ==
    /\ pc = "FlowReview" /\ Typed(ReviewLines, "e")
    /\ choice' = "e"
    /\ \E fault \in EditorFaults, saved \in EditorSaves(output) :
          LET r == launch_editor(output, fault, saved)
          IN  /\ tmp_files + r.left <= MaxTmp
              /\ tmp_files' = tmp_files + r.left
              /\ IF r.raised
                 THEN edited' = edited /\ pc' = "Crashed"
                 ELSE edited' = r.final_text /\ pc' = "FlowConfirm"
    /\ UNCHANGED << page, action, confirm, margins, entries, clip_rect, text, output >>
    /\ NoCommit /\ Others

\* Lines 271-274.
FlowConfirmSave ==
    /\ pc = "FlowConfirm" /\ Typed(ConfirmLines, "y")
    /\ confirm' = "y" /\ Commit(edited) /\ Advance
    /\ UNCHANGED << action, choice, margins, entries, clip_rect, text, output, edited, tmp_files >>
    /\ Others

\* Lines 275-277: back to the prompt; the model is not called again.
FlowConfirmDiscard ==
    /\ pc = "FlowConfirm"
    /\ \E line \in ConfirmLines :
          /\ strip_lower(line) # "y"
          /\ confirm' = strip_lower(line)
    /\ pc' = "FlowReview"
    /\ UNCHANGED << page, action, choice, margins, entries, clip_rect, text, output, edited, tmp_files >>
    /\ NoCommit /\ Others

\* A mutant of FlowRetry: the retry falls through to page += 1.
FlowRetry_advancing ==
    /\ pc = "FlowReview" /\ Typed(ReviewLines, "re")
    /\ choice' = "re"
    /\ output' \in LLMOutputs \cup { << >> }
    /\ Advance
    /\ UNCHANGED << action, confirm, margins, entries, clip_rect, text, edited, tmp_files >>
    /\ NoCommit /\ Others

\* Lines 278-287: the model is called again on the same image.
FlowRetry ==
    /\ pc = "FlowReview" /\ Typed(ReviewLines, "re")
    /\ choice' = "re"
    /\ output' \in LLMOutputs \cup { << >> }
    /\ UNCHANGED << pc, page, action, confirm, margins, entries, clip_rect, text, edited, tmp_files >>
    /\ NoCommit /\ Others

\* Lines 288-290 and 298-299.
FlowSkipPage ==
    /\ pc = "FlowReview" /\ Typed(ReviewLines, "s")
    /\ choice' = "s" /\ Advance
    /\ UNCHANGED << action, confirm, margins, entries, clip_rect, text, output, edited, tmp_files >>
    /\ NoCommit /\ Others

\* Lines 291-293: return.
FlowQuitMode ==
    /\ pc = "FlowReview" /\ Typed(ReviewLines, "q")
    /\ choice' = "q" /\ pc' = "Done"
    /\ UNCHANGED << page, action, confirm, margins, entries, clip_rect, text, output, edited, tmp_files >>
    /\ NoCommit /\ Others

\* Lines 294-296.
FlowUnknown ==
    /\ pc = "FlowReview"
    /\ \E line \in ReviewLines :
          /\ strip_lower(line) \notin { "a", "e", "re", "s", "q" }
          /\ choice' = strip_lower(line)
    /\ UNCHANGED << pc, page, action, confirm, margins, entries, clip_rect, text, output, edited, tmp_files >>
    /\ NoCommit /\ Others

Next ==
    \/ TopQuit \/ TopSkip \/ TopRaw \/ TopFlowchart \/ TopUnknown
    \/ RawAccept \/ RawModifyMargins \/ RawEdit \/ RawConfirmSave
    \/ RawConfirmDiscard \/ RawReextract \/ RawSkipPage \/ RawQuitMode
    \/ RawUnknown
    \/ FlowAccept \/ FlowEdit \/ FlowConfirmSave \/ FlowConfirmDiscard
    \/ FlowRetry \/ FlowSkipPage \/ FlowQuitMode \/ FlowUnknown

\* interactive_run, from its call to its return.
Spec == InitInteractive /\ [][Next]_vars

---------------------------------------------------------------------------
(* The margin adjustment on its own (final_extract.py, lines 173-189): the *)
(* raw review of the first page, with the four entries of each adjustment  *)
(* kept in the state.                                                      *)

\* What the operator may type at a margin prompt here: nothing, an integer,
\* or something that is no integer.
MarginEntries == { "", "770", "x" }

\* interactive_run is at the raw review prompt of page 1 (line 166), with
\* the default margins of lines 154-157.
InitMargins ==
    /\ pc = "RawReview" /\ page = 0 /\ total_pages = 1 /\ start_page = 1
    /\ action = "r" /\ choice = "" /\ confirm = ""
    /\ margins = RawDefaults /\ entries = NoEntries
    /\ text = Extract(0, RawDefaults).text
    /\ clip_rect = Extract(0, RawDefaults).clip_rect
    /\ output = << >> /\ edited = << >> /\ tmp_files = 0
    /\ output_file = << >> /\ calls = << >>
    /\ BatchIdle /\ AppIdle /\ OthersIdle

\* Lines 173-189 and the extraction the continue leads to (line 160).
AdjustMargins ==
    /\ pc = "RawReview" /\ Typed(ReviewLines, "m")
    /\ choice' = "m"
    /\ \E new_top \in MarginEntries, new_bottom \in MarginEntries,
          new_left \in MarginEntries, new_right \in MarginEntries :
          /\ entries' = [top |-> new_top, bottom |-> new_bottom,
                          left |-> new_left, right |-> new_right]
          /\ margins' = ModifyMargins(margins, new_top, new_bottom, new_left, new_right)
          /\ ReExtract(margins')
    /\ UNCHANGED << pc, page, action, confirm, output, edited, tmp_files >>
    /\ NoCommit /\ Others

NextMargins == AdjustMargins

SpecMargins == InitMargins /\ [][NextMargins]_vars

---------------------------------------------------------------------------
(* process_pages (Automated_script.py, lines 128-160): the unattended     *)
(* batch.  One step is one iteration of the for loop; page is the index    *)
(* the next iteration takes and pc is "BatchDone" once the range is used   *)
(* up.  log holds the lines printed.                                       *)

\* append_to_output of Automated_script.py (lines 121-125).
batch_append_to_output(file, page_num, content) ==
    file \o << "\n", "\n", "===", " ", "PAGE", " ", ToString(page_num), " ", "===", "\n" >>
         \o strip(content) \o << "\n" >>
         \o << "===", " ", "END", " ", "PAGE", " ", "===", "\n" >>

\* append_to_output when content.strip() raises: invoke_claude_image hands
\* back whatever the response holds under "text", and for a value that is
\* not a string line 124 raises after line 123 has written the start marker;
\* leaving the with block closes the file, which keeps what was written.
batch_append_to_output_raising(file, page_num) ==
    file \o << "\n", "\n", "===", " ", "PAGE", " ", ToString(page_num), " ", "===", "\n" >>

\* The steps of one iteration that may raise (lines 152-157); append_to_output
\* may raise at open (line 122) or at content.strip() (line 124).
PageFaults == { "clip", "render", "encode", "vision", "open", "strip" }

max(a, b) == IF a > b THEN a ELSE b
min(a, b) == IF a < b THEN a ELSE b

\* Lines 129-133 and the first test of the range.
InitBatch ==
    /\ total_pages \in 1..MaxBatchPages
    /\ start_page \in 0..(MaxBatchPages + 1)
    /\ end_page \in 0..(MaxBatchPages + 1)
    /\ start_idx = max(1, start_page) - 1
    /\ end_idx = min(end_page, total_pages) - 1
    /\ page = start_idx
    /\ pc = IF start_idx < end_idx + 1 THEN "BatchLoop" ELSE "BatchDone"
    /\ output_file = << >> /\ calls = << >> /\ log = << >>
    /\ ReviewIdle /\ AppIdle /\ OthersIdle

\* for page in range(start_idx, end_idx + 1): the next index, if any.
NextInRange ==
    /\ page' = page + 1
    /\ pc' = IF page + 1 < end_idx + 1 THEN "BatchLoop" ELSE "BatchDone"

BatchFrame ==
    UNCHANGED << total_pages, start_page, end_page, start_idx, end_idx, reviewVars, appVars,
                 walkVars, queryVars, geomVars >>

\* Lines 148-160: one iteration.  Either every step succeeds and the block
\* is appended, or a step raises, the except clause prints the failure and
\* the loop goes on.
BatchPage ==
    /\ pc = "BatchLoop"
    /\ \/ \E out \in LLMOutputs \cup { << >> } :
             /\ output_file' = batch_append_to_output(output_file, page + 1, out)
             /\ calls' = Append(calls, << page + 1, out >>)
             /\ log' = Append(log, [msg |-> "Processing", page |-> page + 1])
       \/ \E fault \in PageFaults :
             /\ log' = log \o << [msg |-> "Processing", page |-> page + 1],
                                 [msg |-> "Failed", page |-> page + 1] >>
             /\ output_file' = IF fault = "strip"
                                THEN batch_append_to_output_raising(output_file, page + 1)
                                ELSE output_file
             /\ UNCHANGED calls
    /\ NextInRange
    /\ BatchFrame

NextBatch == BatchPage

\* process_pages, from its call to its return.  The loop is the only thing
\* running, so an iteration that can run does run.
SpecBatch == InitBatch /\ [][NextBatch]_vars /\ WF_vars(NextBatch)

\* One run of either curation tool: interactive_run or process_pages.
InitRuns == InitInteractive \/ InitBatch

NextRuns == Next \/ NextBatch

SpecRuns == InitRuns /\ [][NextRuns]_vars

---------------------------------------------------------------------------
(* The geometry of clipping and cropping on its own: the clip rectangle of *)
(* either tool for a page of any size, and the pixel crop box that         *)
(* render_clipped_image computes from it.  Lengths are whole points and    *)
(* whole pixels; the rounding error of the floating-point scale is left    *)
(* out.                                                                    *)

\* Automated_script.py, lines 31-34.
MARGIN_LEFT == 0
MARGIN_RIGHT == 0
MARGIN_TOP == 60
MARGIN_BOTTOM == 30

\* extract_clip_rect (Automated_script.py, lines 45-50).
extract_clip_rect(rect) ==
    [x0 |-> rect.x0 + MARGIN_LEFT,
     y0 |-> rect.y0 + MARGIN_TOP,
     x1 |-> rect.x1 - MARGIN_RIGHT,
     y1 |-> rect.y1 - MARGIN_BOTTOM]

\* Page sizes in points (page.rect starts at the origin): letter upright
\* and landscape, A4, a banner 100 points high, a slip 80 points high.
PageSizes == { << 612, 792 >>, << 792, 612 >>, << 595, 842 >>, << 612, 100 >>, << 300, 80 >> }

\* The values a margin may have in the raw review: the defaults and what
\* the operator may enter.
MarginValues == { 0, 30, 80, 700, 0 - 5 }

\* convert_from_path renders at 200 dpi; the image has the page size in
\* pixels, rounded up to whole pixels.
RenderedSize(rect) ==
    LET up(a, b) == (a + b - 1) \div b
    IN  [width |-> up((rect.x1 - rect.x0) * 200, 72),
         height |-> up((rect.y1 - rect.y0) * 200, 72)]

\* int(c * dpi_scale) with dpi_scale = image height / page height: the
\* product, truncated toward zero.
ToPixel(c, img, rect) ==
    LET h == rect.y1 - rect.y0
    IN  IF c >= 0 THEN (c * img.height) \div h ELSE 0 - (((0 - c) * img.height) \div h)

\* Lines 54-59 of final_extract.py, lines 69-74 of Automated_script.py.
crop_box_of(clip, img, rect) ==
    [x0 |-> ToPixel(clip.x0, img, rect), y0 |-> ToPixel(clip.y0, img, rect),
     x1 |-> ToPixel(clip.x1, img, rect), y1 |-> ToPixel(clip.y1, img, rect)]

InitGeometry ==
    /\ pc = "Page"
    /\ \E wh \in PageSizes : page_rect = [x0 |-> 0, y0 |-> 0, x1 |-> wh[1], y1 |-> wh[2]]
    /\ margins \in [left : MarginValues, top : MarginValues,
                    right : MarginValues, bottom : MarginValues]
    /\ clip_rect = NoRect /\ image = [width |-> 0, height |-> 0] /\ crop_box = NoRect
    /\ entries = NoEntries
    /\ action = "" /\ choice = "" /\ confirm = ""
    /\ text = << >> /\ output = << >> /\ edited = << >> /\ tmp_files = 0
    /\ page = 0 /\ total_pages = 1 /\ start_page = 1
    /\ output_file = << >> /\ calls = << >>
    /\ BatchIdle /\ AppIdle /\ WalkIdle /\ QueryIdle

GeometryFrame ==
    UNCHANGED << page, total_pages, action, choice, confirm, entries, text, output, edited,
                 tmp_files, output_file, calls, batchVars, appVars, walkVars,
                 queryVars, page_rect >>

\* The raw review clips with the margins it has (final_extract.py, line 160).
ClipRaw ==
    /\ pc = "Page"
    /\ clip_rect' = clipped_rect(page_rect, margins.left, margins.top, margins.right, margins.bottom)
    /\ pc' = "RawClipped"
    /\ UNCHANGED << margins, image, crop_box >> /\ GeometryFrame

\* The flowchart review clips with its defaults (lines 226-232).
ClipFlowchart ==
    /\ pc = "Page"
    /\ margins' = FlowDefaults
    /\ clip_rect' = clipped_rect(page_rect, 0, 60, 0, 30)
    /\ pc' = "FlowClipped"
    /\ UNCHANGED << image, crop_box >> /\ GeometryFrame

\* process_pages clips with the module's margins (line 152).
ClipBatch ==
    /\ pc = "Page"
    /\ margins' = [left |-> MARGIN_LEFT, top |-> MARGIN_TOP,
                   right |-> MARGIN_RIGHT, bottom |-> MARGIN_BOTTOM]
    /\ clip_rect' = extract_clip_rect(page_rect)
    /\ pc' = "BatchClipped"
    /\ UNCHANGED << image, crop_box >> /\ GeometryFrame

\* render_clipped_image of final_extract.py (line 235), up to the crop.
RenderFlowchart ==
    /\ pc = "FlowClipped"
    /\ image' = RenderedSize(page_rect)
    /\ crop_box' = crop_box_of(clip_rect, image', page_rect)
    /\ pc' = "Rendered"
    /\ UNCHANGED << margins, clip_rect >> /\ GeometryFrame

\* render_clipped_image of Automated_script.py (line 153), up to the crop.
RenderBatch ==
    /\ pc = "BatchClipped"
    /\ image' = RenderedSize(page_rect)
    /\ crop_box' = crop_box_of(clip_rect, image', page_rect)
    /\ pc' = "Rendered"
    /\ UNCHANGED << margins, clip_rect >> /\ GeometryFrame

NextGeometry == ClipRaw \/ ClipFlowchart \/ ClipBatch \/ RenderFlowchart \/ RenderBatch

SpecGeometry == InitGeometry /\ [][NextGeometry]_vars

---------------------------------------------------------------------------
(* The chunker (app.py, lines 35-50). *)

CHUNK_SIZE == 600
CHUNK_OVERLAP == 100

\* "=== PAGE", the separator chunk_text splits on.
PAGE_SEP == << "===", " ", "PAGE" >>

\* Where sep occurs in t.  No token of PAGE_SEP repeats, so two occurrences
\* never overlap and these are the occurrences str.split cuts at.
Occurrences(t, sep) ==
    { i \in 1..(Len(t) - Len(sep) + 1) : SubSeq(t, i, i + Len(sep) - 1) = sep }

\* t.split(sep), given the places where sep starts and the start of the
\* piece under construction.
RECURSIVE Pieces(_, _, _, _)
Pieces(t, sep, at, from) ==
    IF at = { } THEN << SubSeq(t, from, Len(t)) >>
    ELSE LET i == CHOOSE j \in at : \A k \in at : j <= k
         IN  << SubSeq(t, from, i - 1) >>
                 \o Pieces(t, sep, at \ { i }, i + Len(sep))

str_split(t, sep) == Pieces(t, sep, Occurrences(t, sep), 1)

\* " ".join(words), without recursion: chunks are long.
join_words(words) ==
    [i \in 1..(2 * Len(words) - 1) |-> IF i % 2 = 1 THEN words[(i + 1) \div 2] ELSE " "]

\* A mutant of Windows: the walk steps by the whole size, without overlap.
RECURSIVE Windows_unoverlapped(_, _, _, _)
Windows_unoverlapped(words, start, size, overlap) ==
    IF start < Len(words)
    THEN << join_words(SubSeq(words, start + 1, min(start + size, Len(words)))) >>
             \o Windows_unoverlapped(words, start + size, size, overlap)
    ELSE << >>

\* Lines 44-48: the window walk over one page's words.
RECURSIVE Windows(_, _, _, _)
Windows(words, start, size, overlap) ==
    IF start < Len(words)
    THEN << join_words(SubSeq(words, start + 1, min(start + size, Len(words)))) >>
             \o Windows(words, start + size - overlap, size, overlap)
    ELSE << >>

\* A mutant of ChunkPages: one window per page, the first.
RECURSIVE ChunkPages_first_window(_, _)
ChunkPages_first_window(pages, k) ==
    IF k > Len(pages) THEN << >>
    ELSE (IF strip(pages[k]) = << >> THEN << >>
          ELSE << Windows(split(pages[k]), 0, CHUNK_SIZE, CHUNK_OVERLAP)[1] >>)
             \o ChunkPages_first_window(pages, k + 1)

\* Lines 39-48 for the pieces from the k-th on.
RECURSIVE ChunkPages(_, _)
ChunkPages(pages, k) ==
    IF k > Len(pages) THEN << >>
    ELSE (IF strip(pages[k]) = << >> THEN << >>
          ELSE Windows(split(pages[k]), 0, CHUNK_SIZE, CHUNK_OVERLAP))
             \o ChunkPages(pages, k + 1)

\* chunk_text(text).
chunk_text(t) == ChunkPages(str_split(t, PAGE_SEP), 1)

---------------------------------------------------------------------------
(* The window walk of chunk_text (lines 44-48), one window per step, for   *)
(* any values of the two settings it reads, CHUNK_SIZE and CHUNK_OVERLAP.  *)

\* words[a:b] of Python: a negative bound counts from the end, bounds
\* beyond the ends are cut off, an empty range gives an empty list.
py_slice(s, a, b) ==
    LET n == Len(s)
        lo == IF a < 0 THEN max(0, n + a) ELSE min(a, n)
        hi == IF b < 0 THEN max(0, n + b) ELSE min(b, n)
    IN  SubSeq(s, lo + 1, hi)

\* Line 43 and 44: the page's words, start = 0; the settings are whatever
\* the configuration section holds.
InitWalk ==
    /\ pc = "Walk"
    /\ walk_size \in 1..MaxSize
    /\ walk_overlap \in 0..MaxSize
    /\ \E n \in 0..MaxWords : walk_words = [i \in 1..n |-> ToString(i)]
    /\ walk_start = 0
    /\ chunks = << >>
    /\ page = 0 /\ total_pages = 0 /\ start_page = 0
    /\ output_file = << >> /\ calls = << >>
    /\ faiss_file = Absent /\ chunks_file = Absent /\ index = << >>
    /\ path = "" /\ error = "" /\ starts = 0
    /\ ReviewIdle /\ BatchIdle /\ QueryIdle /\ GeomIdle

WalkFrame ==
    UNCHANGED << page, total_pages, output_file, calls, reviewVars, batchVars,
                 faiss_file, chunks_file, index, path, error, starts,
                 walk_size, walk_overlap, walk_words, queryVars, geomVars >>

\* Lines 45-48: one turn of the while loop.  (The model follows a walk for
\* MaxWindows windows.)
WalkWindow ==
    /\ pc = "Walk" /\ walk_start < Len(walk_words)
    /\ Len(chunks) < MaxWindows
    /\ LET end == walk_start + walk_size
       IN  chunks' = Append(chunks, join_words(py_slice(walk_words, walk_start, end)))
    /\ walk_start' = walk_start + walk_size - walk_overlap
    /\ UNCHANGED pc /\ WalkFrame

\* Line 45: the loop test fails and the walk is over.
WalkEnd ==
    /\ pc = "Walk" /\ ~ (walk_start < Len(walk_words))
    /\ pc' = "WalkDone"
    /\ UNCHANGED << chunks, walk_start >> /\ WalkFrame

NextWalk == WalkWindow \/ WalkEnd

SpecWalk == InitWalk /\ [][NextWalk]_vars

---------------------------------------------------------------------------
(* The corpus store and the chunker on their own: any sequence of appends, *)
(* by either curation tool and with any ordinals, and chunk_text applied   *)
(* to the file they leave.                                                 *)

\* n numerals separated by blanks: a page longer than one window.
LongText(n) == [i \in 1..(2 * n - 1) |-> IF i % 2 = 1 THEN ToString((i + 1) \div 2) ELSE " "]

\* Page contents: empty, short with surrounding white space, text that
\* itself holds the page delimiter, and a page of 994 words, whose segment
\* (with the six words the framing leaves in it) has 1000 words.
Contents ==
    { << >>,
      << " ", "stage", " ", "IIB", "\n" >>,
      << "see", " ", "===", " ", "PAGE", " ", "MS-2" >>,
      LongText(994) }

Ordinals == 1..3

InitCorpus ==
    /\ pc = "Corpus" /\ page = 0 /\ total_pages = 0 /\ start_page = 0
    /\ output_file = << >> /\ calls = << >>
    /\ ReviewIdle /\ BatchIdle /\ AppIdle /\ OthersIdle

CorpusFrame ==
    UNCHANGED << pc, page, total_pages, reviewVars, batchVars, faiss_file,
                 chunks_file, index, path, error, starts, walkVars, queryVars, geomVars >>

\* final_extract.py's append_to_output(page_num, content).
AppendBlock ==
    /\ pc = "Corpus" /\ Len(calls) < MaxCalls
    /\ \E page_num \in Ordinals, content \in Contents :
          /\ output_file' = append_to_output(output_file, page_num, content)
          /\ calls' = Append(calls, << page_num, content >>)
    /\ UNCHANGED chunks /\ CorpusFrame

\* Automated_script.py's append_to_output(page_num, content).
BatchAppendBlock ==
    /\ pc = "Corpus" /\ Len(calls) < MaxCalls
    /\ \E page_num \in Ordinals, content \in Contents :
          /\ output_file' = batch_append_to_output(output_file, page_num, content)
          /\ calls' = Append(calls, << page_num, content >>)
    /\ UNCHANGED chunks /\ CorpusFrame

\* chunks = chunk_text(load_text()) on the corpus as it is.
ChunkCorpus ==
    /\ pc = "Corpus"
    /\ chunks' = chunk_text(output_file)
    /\ UNCHANGED << output_file, calls >> /\ CorpusFrame

NextCorpus == AppendBlock \/ BatchAppendBlock \/ ChunkCorpus

SpecCorpus == InitCorpus /\ [][NextCorpus]_vars

---------------------------------------------------------------------------
(* The index life cycle (app.py, lines 55-94 and 154-158).  Streamlit runs  *)
(* the script, and so the start-up at lines 154-158, on every start and    *)
(* every rerun.  A file on disk is a record: absent, partial (a write that *)
(* did not finish) or complete, with the run that wrote it and what it     *)
(* holds.  Vector components are integers standing for the doubles of the  *)
(* embedding response.                                                     *)

\* The embedding collaborator (lines 59-66): a fixed function of the text.
Titan(t) == << 3 * Len(t) + 1, 5 * Len(split(t)) + 2 >>

\* astype("float32") (line 68): the low-order part of each double is lost.
astype_float32(v) == [i \in DOMAIN v |-> 2 * (v[i] \div 2)]

\* embed_texts(texts).
embed_texts(texts) == [i \in 1..Len(texts) |-> astype_float32(Titan(texts[i]))]

\* os.path.exists.
exists(file) == file.state # "absent"

\* Where build_and_save_index can stop without finishing: the embedding call
\* raises ("embed"), or the process ends while faiss.write_index is writing
\* ("mid_index"), between the two writes ("after_index") or while
\* pickle.dump is writing ("mid_chunks").
BuildStops == { "none", "embed", "mid_index", "after_index", "mid_chunks" }

AppFrame ==
    UNCHANGED << page, total_pages, reviewVars, batchVars, walkVars, geomVars >>

\* build_and_save_index() (lines 71-87), stopping at stop.
build_and_save_index(stop) ==
    LET new_chunks == chunk_text(output_file)
        embeddings == embed_texts(new_chunks)
        Ends(how) == /\ pc' = (IF how = "stopped" THEN "AppStopped" ELSE "AppFailed")
                     /\ error' = how
                     /\ index' = << >> /\ chunks' = << >>
    IN  IF stop = "embed" /\ new_chunks # << >>
        THEN Ends("embed") /\ UNCHANGED << faiss_file, chunks_file >>
        ELSE IF new_chunks = << >>
        THEN \* embeddings.shape[1] of an empty array (line 79)
             Ends("IndexError") /\ UNCHANGED << faiss_file, chunks_file >>
        ELSE IF stop = "mid_index"
        THEN /\ Ends("stopped")
             /\ faiss_file' = [state |-> "partial", build |-> starts + 1, rows |-> << >>]
             /\ UNCHANGED chunks_file
        ELSE /\ faiss_file' = [state |-> "complete", build |-> starts + 1, rows |-> embeddings]
             /\ IF stop = "after_index"
                THEN Ends("stopped") /\ UNCHANGED chunks_file
                ELSE IF stop = "mid_chunks"
                THEN /\ Ends("stopped")
                     /\ chunks_file' = [state |-> "partial", build |-> starts + 1, list |-> << >>]
                ELSE /\ chunks_file' = [state |-> "complete", build |-> starts + 1, list |-> new_chunks]
                     /\ index' = embeddings /\ chunks' = new_chunks
                     /\ pc' = "AppReady" /\ error' = ""

\* load_index() (lines 90-94): nothing catches what the two reads raise.
load_index ==
    /\ UNCHANGED << faiss_file, chunks_file >>
    /\ IF faiss_file.state = "partial"
       THEN pc' = "AppFailed" /\ error' = "read_index" /\ index' = << >> /\ chunks' = << >>
       ELSE IF chunks_file.state = "partial"
       THEN pc' = "AppFailed" /\ error' = "pickle_load" /\ index' = << >> /\ chunks' = << >>
       ELSE /\ index' = faiss_file.rows /\ chunks' = chunks_file.list
            /\ pc' = "AppReady" /\ error' = ""

InitApp ==
    /\ pc = "AppDown" /\ page = 0 /\ total_pages = 0 /\ start_page = 0
    /\ output_file = << >> /\ calls = << >>
    /\ ReviewIdle /\ BatchIdle /\ AppIdle /\ OthersIdle

\* Lines 154-158: load the persisted pair if both files exist, else build.
StartApp ==
    /\ starts < MaxStarts
    /\ starts' = starts + 1
    /\ IF exists(faiss_file) /\ exists(chunks_file)
       THEN path' = "load" /\ load_index
       ELSE path' = "build" /\ \E stop \in BuildStops : build_and_save_index(stop)
    /\ idxs' = << >> /\ results' = << >> /\ question' = << >>
    /\ UNCHANGED << output_file, calls >> /\ AppFrame

\* What a curated page may hold: a few words.
CuratedContents == { LongText(2), LongText(5) }

\* Between starts a curation tool appends a page block to the corpus.
CurateCorpus ==
    /\ Len(calls) < MaxCalls
    /\ \E content \in CuratedContents :
       LET page_num == Len(calls) + 1
       IN  /\ output_file' = append_to_output(output_file, page_num, content)
           /\ calls' = Append(calls, << page_num, content >>)
    /\ UNCHANGED << appVars, queryVars, pc >> /\ AppFrame

\* Between starts the operator deletes a persisted artifact: the only way to
\* have the index built again, since the start-up builds only when a file
\* is missing.
RemoveFaissFile ==
    /\ exists(faiss_file) /\ faiss_file' = Absent
    /\ UNCHANGED << chunks_file, index, chunks, path, error, starts, pc, output_file, calls, queryVars >>
    /\ AppFrame

RemoveChunksFile ==
    /\ exists(chunks_file) /\ chunks_file' = Absent
    /\ UNCHANGED << faiss_file, index, chunks, path, error, starts, pc, output_file, calls, queryVars >>
    /\ AppFrame

TOP_K == 10

\* The squared Euclidean distance of IndexFlatL2.
L2sqr(a, b) ==
    LET d == [i \in DOMAIN a |-> (a[i] - b[i]) * (a[i] - b[i])]
    IN  IF Len(d) = 0 THEN 0 ELSE IF Len(d) = 1 THEN d[1] ELSE d[1] + d[2]

\* The place of each row in the order of the distances dist, rows at the
\* same distance by ascending row.
Ranks(dist) ==
    [i \in DOMAIN dist |->
        Cardinality({ j \in DOMAIN dist : \/ dist[j] < dist[i]
                                          \/ dist[j] = dist[i] /\ j < i }) + 1]

\* The row at each place.
Order(rank) == [r \in DOMAIN rank |-> CHOOSE i \in DOMAIN rank : rank[i] = r]

\* The k labels: zero-based rows, then -1 for the places without a row.
Labels(at, k) == [r \in 1..k |-> IF r <= Len(at) THEN at[r] - 1 ELSE 0 - 1]

\* index.search(q, k) for one query: the labels (zero-based rows) of the k
\* rows nearest to q, nearest first, rows at the same distance by ascending
\* label (faiss orders its result heap by distance, then label), and -1 in
\* every place for which the index has no row.
search(rows, q, k) ==
    Labels(Order(Ranks([i \in 1..Len(rows) |-> L2sqr(rows[i], q)])), k)

\* list[i] of Python is defined for -len <= i < len.
py_in_range(list, i) == 0 - Len(list) <= i /\ i < Len(list)
py_item(list, i) == IF i >= 0 THEN list[i + 1] ELSE list[Len(list) + i + 1]

\* What the operator may type as a question: a few words, or the very text
\* of a stored chunk.
Questions == { << "stage" >>, LongText(3) } \cup { chunks[i] : i \in 1..Len(chunks) }

\* Line 102: [chunks[i] for i in idxs[0]].
Fetch(labels, list) ==
    [idxs |-> labels,
     raised |-> \E r \in 1..Len(labels) : ~ py_in_range(list, labels[r]),
     chunks |-> [r \in 1..Len(labels) |->
                    IF py_in_range(list, labels[r]) THEN py_item(list, labels[r]) ELSE << >>]]

\* retrieve(query, index, chunks) (lines 99-102): the labels, whether
\* chunks[i] raised IndexError for one of them, and the list returned.
retrieve(query, rows, list) ==
    Fetch(search(rows, embed_texts(<< query >>)[1], TOP_K), list)

\* Lines 166-170: a question is asked of the pair the application holds.
\* The embedding call of retrieve or the generation call may raise, and so
\* may chunks[i]; nothing catches any of them.
Ask ==
    /\ pc = "AppReady"
    /\ \E asked \in Questions :
          \E got \in { retrieve(asked, index, chunks) } :
              /\ question' = asked
              /\ \E fault \in { "none", "embed", "generation" } :
                    IF fault = "embed"
                    THEN /\ pc' = "AppFailed" /\ error' = "embed"
                         /\ idxs' = << >> /\ results' = << >>
                    ELSE IF got.raised
                    THEN /\ pc' = "AppFailed" /\ error' = "IndexError"
                         /\ idxs' = got.idxs /\ results' = << >>
                    ELSE /\ idxs' = got.idxs /\ results' = got.chunks
                         /\ IF fault = "generation"
                            THEN pc' = "AppFailed" /\ error' = "generation"
                            ELSE pc' = "AppReady" /\ error' = ""
    /\ UNCHANGED << faiss_file, chunks_file, index, chunks, path, starts, output_file, calls >>
    /\ AppFrame

NextApp == StartApp \/ CurateCorpus \/ RemoveFaissFile \/ RemoveChunksFile \/ Ask

SpecApp == InitApp /\ [][NextApp]_vars

---------------------------------------------------------------------------
(* Retrieval on its own: the application holds the pair it built from a    *)
(* corpus of n short pages, n up to MaxRows, and questions are asked.      *)

\* The number of words of page i of n, for a few shapes of corpus: pages
\* growing, shrinking, all alike, and alternating.
PageWords(shape, i, n) ==
    CASE shape = "growing" -> i
      [] shape = "shrinking" -> n + 1 - i
      [] shape = "alike" -> 2
      [] OTHER -> 1 + 3 * (i % 2)

\* The corpus file after the appends cs, made in that order.
RECURSIVE Written(_)
Written(cs) ==
    IF cs = << >> THEN << >>
    ELSE LET last == cs[Len(cs)]
         IN  append_to_output(Written(SubSeq(cs, 1, Len(cs) - 1)), last[1], last[2])

\* The state after build_and_save_index has returned on such a corpus.
InitRetrieve ==
    /\ pc = "AppReady"
    /\ \E n \in 1..MaxRows, shape \in { "growing", "shrinking", "alike", "alternating" } :
          calls = [i \in 1..n |-> << i, LongText(PageWords(shape, i, n)) >>]
    /\ output_file = Written(calls)
    /\ chunks = chunk_text(output_file)
    /\ index = embed_texts(chunks)
    /\ faiss_file = [state |-> "complete", build |-> 1, rows |-> index]
    /\ chunks_file = [state |-> "complete", build |-> 1, list |-> chunks]
    /\ path = "build" /\ error = "" /\ starts = 1
    /\ page = 0 /\ total_pages = 0 /\ start_page = 0
    /\ ReviewIdle /\ BatchIdle /\ OthersIdle

NextRetrieve == Ask

SpecRetrieve == InitRetrieve /\ [][NextRetrieve]_vars

---------------------------------------------------------------------------
(* Claims about interactive_run, checked under Spec. *)

\* A page block as the corpus format frames it: two newlines, the start
\* line with the ordinal, the trimmed content, the end line.
Block(ordinal, content) ==
    << "\n", "\n", "===", " ", "PAGE", " ", ToString(ordinal), " ", "===", "\n" >>
        \o strip(content)
        \o << "\n", "===", " ", "END", " ", "PAGE", " ", "===", "\n" >>

ReviewPrompts == { "RawReview", "FlowReview" }
ConfirmPrompts == { "RawConfirm", "FlowConfirm" }

\* C1: a step of interactive_run appends to the corpus only when it reads
\* Accept at a review prompt or "y" at a save-or-discard prompt, and then it
\* appends exactly one block, carrying the 1-based ordinal of the page under
\* review and the text on offer (the extracted text, the model output or
\* the edited text); every other step leaves the corpus as it was.
C1_CommitOnlyByAcceptOrSave ==
    [][ LET accept == pc \in ReviewPrompts /\ choice' = "a"
            save == pc \in ConfirmPrompts /\ confirm' = "y"
            content == IF pc = "RawReview" THEN text
                       ELSE IF pc = "FlowReview" THEN output
                       ELSE edited
        IN  IF accept \/ save
            THEN output_file' = output_file \o Block(page + 1, content)
            ELSE output_file' = output_file ]_vars

\* Page 1 was accepted and page 2 saved from the editor.
C1_Witness ==
    /\ Len(calls) = 2 /\ confirm = "y" /\ choice = "e"
    /\ output_file = Block(1, calls[1][2]) \o Block(2, edited)

\* C2: the cursor moves only by one, and only in a step that reads Skip at
\* the top menu, Accept or SkipPage at a review prompt, or "y" at a
\* save-or-discard prompt; every other step (AdjustMargins, Reextract,
\* Retry, a discarded edit, unrecognised input, ...) leaves it in place.
C2_CursorMovesOnlyOnOperatorAction ==
    [][ LET top_skip == pc = "TopMenu" /\ action' = "s"
            leave == pc \in ReviewPrompts /\ choice' \in { "a", "s" }
            save == pc \in ConfirmPrompts /\ confirm' = "y"
        IN  IF top_skip \/ leave \/ save
            THEN page' = page + 1
            ELSE page' = page ]_vars

\* On the second page, after a margin adjustment that changed the margins.
C2_Witness ==
    /\ page = 1 /\ pc = "RawReview" /\ choice = "m" /\ margins # RawDefaults

C9_NoTempFileRemains == tmp_files = 0

---------------------------------------------------------------------------
(* Claims about process_pages, checked under SpecBatch. *)

\* The ordinals of the log lines with message m, in the order printed.
Logged(m) ==
    LET L == SelectSeq(log, LAMBDA e : e.msg = m)
    IN  [i \in 1..Len(L) |-> L[i].page]

RECURSIVE Blocks(_)
Blocks(cs) ==
    IF cs = << >> THEN << >>
    ELSE Block(cs[1][1], cs[1][2]) \o Blocks(Tail(cs))

\* C8: the pages attempted are max(1,start), max(1,start)+1, ... in
\* ascending order, each once, whatever failed before; the corpus holds
\* exactly one block, with its own ordinal, for each attempted page that did
\* not fail and nothing for a page that failed; and once the loop has ended
\* every ordinal of [max(1,start), min(end,total)] has been attempted.
C8_BatchSurvivesPageFailures ==
    LET lo == max(1, start_page)
        hi == min(end_page, total_pages)
        attempted == Logged("Processing")
        failed == { Logged("Failed")[i] : i \in 1..Len(Logged("Failed")) }
        kept == SelectSeq(attempted, LAMBDA n : n \notin failed)
    IN  /\ attempted = [i \in 1..Len(attempted) |-> lo + i - 1]
        /\ Len(attempted) <= max(0, hi - lo + 1)
        /\ pc = "BatchDone" => Len(attempted) = max(0, hi - lo + 1)
        /\ Len(Logged("Failed")) = Cardinality(failed)
        /\ failed \subseteq { attempted[i] : i \in 1..Len(attempted) }
        /\ [i \in 1..Len(calls) |-> calls[i][1]] = kept
        /\ output_file = Blocks(calls)

\* The part of C8 that the code keeps: a failure never ends the batch, the
\* range is walked once in ascending order, and the loop ends.
BatchWalksRange ==
    /\ [] LET lo == max(1, start_page)
              hi == min(end_page, total_pages)
              attempted == Logged("Processing")
          IN  /\ attempted = [i \in 1..Len(attempted) |-> lo + i - 1]
              /\ pc = "BatchDone" => Len(attempted) = max(0, hi - lo + 1)
    /\ <>(pc = "BatchDone")

---------------------------------------------------------------------------
(* Claims about the margins of interactive_run, checked under Spec. *)

\* C14: a clip rectangle that is degenerate or inverted (left + right >=
\* page width or top + bottom >= page height) is never passed on to text
\* extraction: every rectangle an extraction was made with has x0 < x1 and
\* y0 < y1, the other ones having been refused with an error.
C14_NoDegenerateClip ==
    pc \in ReviewPrompts \cup ConfirmPrompts =>
        clip_rect.x0 < clip_rect.x1 /\ clip_rect.y0 < clip_rect.y1

\* C15: in every state of the raw review the four margins are >= 0.
C15_MarginsNonNegative ==
    pc \in { "RawReview", "RawConfirm" } =>
        margins.left >= 0 /\ margins.top >= 0 /\ margins.right >= 0 /\ margins.bottom >= 0

\* C21: a margin adjustment in which any of the four entries is no integer
\* leaves the margins as they were before the step, and the review stays
\* at its prompt on the same page (the next step extracts again).
C21_AdjustMarginsAllOrNothing ==
    [][ ( /\ pc = "RawReview" /\ choice' = "m"
          /\ \E f \in { "top", "bottom", "left", "right" } :
                entries'[f] # "" /\ ~IsIntString(entries'[f]) )
        => margins' = margins /\ pc' = "RawReview" /\ page' = page ]_vars

\* C16: every entry into the raw review starts from the margins 0, 80, 0, 30
\* (left, top, right, bottom) and the rectangle they give, whatever an
\* earlier review set; every entry into the flowchart review computes the
\* clip from 0, 60, 0, 30; and nothing the operator does in the flowchart
\* review changes margins or clip.
C16_MarginsScopedToOneReview ==
    [][ /\ pc = "TopMenu" /\ pc' = "RawReview" =>
              /\ margins' = [left |-> 0, top |-> 80, right |-> 0, bottom |-> 30]
              /\ clip_rect' = [x0 |-> 0, y0 |-> 80, x1 |-> 612, y1 |-> 762]
        /\ pc = "TopMenu" /\ pc' = "FlowReview" =>
              clip_rect' = [x0 |-> 0, y0 |-> 60, x1 |-> 612, y1 |-> 762]
        /\ pc \in { "FlowReview", "FlowConfirm" } =>
              margins' = margins /\ clip_rect' = clip_rect ]_vars

\* The raw review of the second page starts from the defaults after the
\* first page was saved with a lowered bottom margin (its footer is in the
\* saved text).
C16_Witness ==
    /\ pc = "RawReview" /\ page = 1 /\ action = "r"
    /\ margins = [left |-> 0, top |-> 80, right |-> 0, bottom |-> 30]
    /\ Len(calls) = 1
    /\ \E i \in 1..Len(calls[1][2]) : calls[1][2][i] = "Version"

---------------------------------------------------------------------------
(* A claim about one run of either curation tool, checked under SpecRuns. *)

\* C19: within one run the ordinals of the committed blocks are strictly
\* increasing in commit order (so no page is committed twice), and the
\* cursor never goes back to an earlier page.
C19_OrdinalsIncreaseWithinRun ==
    /\ [](\A i, j \in 1..Len(calls) : i < j => calls[i][1] < calls[j][1])
    /\ [][page' >= page]_vars

\* An interactive run that has ended after committing pages 1 and 2.
C19_Witness ==
    /\ pc = "Done" /\ page = 2
    /\ Len(calls) = 2 /\ calls[1][1] = 1 /\ calls[2][1] = 2

---------------------------------------------------------------------------
(* Claims about clipping and cropping, checked under SpecGeometry. *)

\* C17: the pixel crop box lies within the rendered image:
\* 0 <= x0 <= x1 <= width and 0 <= y0 <= y1 <= height.
C17_CropBoxWithinImage ==
    pc = "Rendered" =>
        /\ 0 <= crop_box.x0 /\ crop_box.x0 <= crop_box.x1 /\ crop_box.x1 <= image.width
        /\ 0 <= crop_box.y0 /\ crop_box.y0 <= crop_box.y1 /\ crop_box.y1 <= image.height

\* C18: the clip rectangle is (x0 + left, y0 + top, x1 - right, y1 - bottom);
\* for non-negative margins with left + right < width and top + bottom <
\* height it has x0 < x1 and y0 < y1; and for the page (0, 0, 612, 792) and
\* the margins left 0, top 60, right 0, bottom 30 it is (0, 60, 612, 762).
C18_ClipRectangle ==
    pc # "Page" =>
        LET width == page_rect.x1 - page_rect.x0
            height == page_rect.y1 - page_rect.y0
        IN  /\ clip_rect.x0 = page_rect.x0 + margins.left
            /\ clip_rect.y0 = page_rect.y0 + margins.top
            /\ clip_rect.x1 = page_rect.x1 - margins.right
            /\ clip_rect.y1 = page_rect.y1 - margins.bottom
            /\ ( /\ margins.left >= 0 /\ margins.top >= 0
                 /\ margins.right >= 0 /\ margins.bottom >= 0
                 /\ margins.left + margins.right < width
                 /\ margins.top + margins.bottom < height )
               => clip_rect.x0 < clip_rect.x1 /\ clip_rect.y0 < clip_rect.y1
            /\ ( /\ page_rect = [x0 |-> 0, y0 |-> 0, x1 |-> 612, y1 |-> 792]
                 /\ margins = [left |-> 0, top |-> 60, right |-> 0, bottom |-> 30] )
               => clip_rect = [x0 |-> 0, y0 |-> 60, x1 |-> 612, y1 |-> 762]

\* The raw review has clipped a letter page with the margins 30, 80, 80, 30.
C18_Witness ==
    /\ pc = "RawClipped"
    /\ page_rect = [x0 |-> 0, y0 |-> 0, x1 |-> 612, y1 |-> 792]
    /\ margins = [left |-> 30, top |-> 80, right |-> 80, bottom |-> 30]
    /\ clip_rect = [x0 |-> 30, y0 |-> 80, x1 |-> 532, y1 |-> 762]

---------------------------------------------------------------------------
(* Claims about the corpus store and the chunker, checked under SpecCorpus. *)

IsWindowOf(w, ws) ==
    \E a \in 0..(Len(ws) - Len(w)) : SubSeq(ws, a + 1, a + Len(w)) = w

\* C10: every chunk is a word window of the content of one page block: it
\* holds no words of two blocks and no words outside a block's content.
C10_ChunkWithinBlockContent ==
    \A c \in 1..Len(chunks) :
        \E b \in 1..Len(calls) :
            IsWindowOf(split(chunks[c]), split(calls[b][2]))

\* What chunk_text does keep: every chunk is a word window of one page block
\* as framed in the file, marker words included, and never spans two blocks.
ChunkWithinFramedBlock ==
    \A c \in 1..Len(chunks) :
        \E b \in 1..Len(calls) :
            IsWindowOf(split(chunks[c]), split(Block(calls[b][1], calls[b][2])))

\* The word sequences between the places where "===" is followed by "PAGE"
\* in the word sequence W, given those places in ascending order.
RECURSIVE SegmentsAt(_, _, _)
SegmentsAt(W, cuts, from) ==
    IF cuts = { } THEN << SubSeq(W, from, Len(W)) >>
    ELSE LET i == CHOOSE j \in cuts : \A k \in cuts : j <= k
         IN  << SubSeq(W, from, i - 1) >> \o SegmentsAt(W, cuts \ { i }, i + 2)

\* The page-block segments of the corpus written by the calls cs.
SegmentsOf(cs) ==
    LET W == split(Blocks(cs))
        cuts == { i \in 1..(Len(W) - 1) : W[i] = "===" /\ W[i + 1] = "PAGE" }
    IN  SegmentsAt(W, cuts, 1)

\* The windows the claim gives for a segment w of n words: one for every
\* start 0, S-O, 2(S-O), ... below n, holding min(S, n - start) words.
WindowsOfSegment(w) ==
    LET n == Len(w)
        step == CHUNK_SIZE - CHUNK_OVERLAP
        count == (n + step - 1) \div step
    IN  [j \in 1..count |->
            LET start == (j - 1) * step
            IN  [i \in 1..min(CHUNK_SIZE, n - start) |-> w[start + i]]]

RECURSIVE WindowsOfSegments(_)
WindowsOfSegments(segs) ==
    IF segs = << >> THEN << >>
    ELSE WindowsOfSegment(segs[1]) \o WindowsOfSegments(Tail(segs))

\* C11: the chunks are, segment after segment and window after window, the
\* windows starting at 0, 500, 1000, ... below the segment's word count,
\* each of min(600, n - start) words joined by single blanks: the last one
\* truncated, none padded.  (The chunk list is that of the corpus as it was
\* when it was chunked: the first k blocks.)
C11_WindowsAtMultiplesOfStep ==
    \E k \in 0..Len(calls) :
        LET E == WindowsOfSegments(SegmentsOf(SubSeq(calls, 1, k)))
        IN  /\ Len(chunks) = Len(E)
            /\ \A i \in 1..Len(E) :
                  /\ split(chunks[i]) = E[i]
                  /\ Len(chunks[i]) = 2 * Len(E[i]) - 1

\* A segment of 1000 words (the ordinal, "===", 994 words of content, the
\* four words of the end marker) chunked: two windows, the second one the
\* words 500..999, which starts at the content's 499th word.
C11_Witness ==
    /\ Len(calls) = 1 /\ calls[1][2] = LongText(994)
    /\ Len(chunks) = 2
    /\ Len(split(chunks[1])) = 600 /\ split(chunks[1])[1] = ToString(calls[1][1])
    /\ Len(split(chunks[2])) = 500 /\ split(chunks[2])[1] = "499"
    /\ split(chunks[2])[500] = "==="

\* The set of the words of w, and w without its first n words.
WordsOf(w) == { w[i] : i \in 1..Len(w) }
WithoutFirst(w, n) == SubSeq(w, n + 1, Len(w))

\* The words of the chunks list[from .. from + count - 1] put together: the
\* first chunk whole, every later one without its first CHUNK_OVERLAP words.
RECURSIVE Rejoined(_, _, _, _)
Rejoined(list, from, count, first) ==
    IF count = 0 THEN << >>
    ELSE WithoutFirst(split(list[from]), IF first THEN 0 ELSE CHUNK_OVERLAP)
            \o Rejoined(list, from + 1, count - 1, FALSE)

\* The number of chunks of a segment of n words.
ChunksOfLength(n) ==
    (n + (CHUNK_SIZE - CHUNK_OVERLAP) - 1) \div (CHUNK_SIZE - CHUNK_OVERLAP)

\* The segment seg is kept whole by the count chunks from the from-th on.
KeptSegment(seg, list, from, count) ==
    /\ from + count - 1 <= Len(list)
    /\ WordsOf(seg) \subseteq
          UNION { WordsOf(split(list[c])) : c \in from..(from + count - 1) }
    /\ Rejoined(list, from, count, TRUE) = seg

\* The segments from the s-th on are kept whole by the chunks from the
\* from-th on, and no chunk is left over.
RECURSIVE KeptWhole(_, _, _, _)
KeptWhole(segs, s, list, from) ==
    IF s > Len(segs) THEN from = Len(list) + 1
    ELSE \E count \in { ChunksOfLength(Len(segs[s])) } :
            /\ KeptSegment(segs[s], list, from, count)
            /\ KeptWhole(segs, s + 1, list, from + count)

\* C22: chunking loses no text: for every segment of the corpus that was
\* chunked (the first k blocks), every word of the segment is in one of its
\* chunks, and its chunks in order, each after the first without its first
\* 100 words, give back the segment's word sequence.
C22_ChunkingLosesNoText ==
    \E k \in 0..Len(calls) :
        KeptWhole(SegmentsOf(SubSeq(calls, 1, k)), 1, chunks, 1)

\* Two blocks chunked, the first of 1000 words in two chunks of 600 and 500
\* words, the second in one chunk.
C22_Witness ==
    /\ Len(calls) = 2 /\ calls[1][2] = LongText(994) /\ calls[2][2] # LongText(994)
    /\ Len(chunks) = 3
    /\ Len(split(chunks[1])) = 600 /\ Len(split(chunks[2])) = 500

\* C12, checked under SpecWalk: whatever the size and overlap settings, the
\* walk either produces no window (the configuration is rejected) or every
\* window it produces moves the start forward (the overlap is clamped below
\* the size), so that it ends after at most one window per word.
C12_WalkAlwaysAdvances ==
    [][ Len(chunks') > Len(chunks) => walk_start' > walk_start ]_vars

---------------------------------------------------------------------------
(* Claims about the index life cycle, checked under SpecApp. *)

\* C5: whenever the application holds an (index, chunks) pair, built or
\* loaded, the index has one row per chunk and row i is the embedding of
\* chunk i.
C5_IndexChunkAlignment ==
    pc = "AppReady" =>
        /\ Len(index) = Len(chunks)
        /\ \A i \in 1..Len(chunks) : index[i] = astype_float32(Titan(chunks[i]))

\* The two files on disk are complete and were written by the same build.
SamePair ==
    /\ faiss_file.state = "complete" /\ chunks_file.state = "complete"
    /\ faiss_file.build = chunks_file.build

\* C6: a start takes the load-existing path only on a pair of artifacts
\* written by one build: never on one new and one old, missing or
\* incomplete artifact, wherever an earlier build stopped.
C6_LoadOnlyWholePair ==
    [][ starts' = starts + 1 /\ path' = "load" => SamePair ]_vars

\* C7: a start that finds an artifact missing, or present but unreadable,
\* takes the build path and does not end with the error of a failed load.
C7_FallsBackToRebuild ==
    [][ /\ starts' = starts + 1
        /\ \/ ~ exists(faiss_file) \/ ~ exists(chunks_file)
           \/ faiss_file.state = "partial" \/ chunks_file.state = "partial"
        => path' = "build" /\ error' \notin { "read_index", "pickle_load" } ]_vars

---------------------------------------------------------------------------
(* Claims about retrieval, checked under SpecRetrieve. *)

\* A question has been answered from the index: retrieve has returned.
Retrieved == question # << >> /\ results # << >>

\* The squared distance of a returned chunk's vector to the query vector.
DistanceOf(chunk) ==
    L2sqr(embed_texts(<< chunk >>)[1], embed_texts(<< question >>)[1])

\* C13: retrieve returns at most ten chunks, in order of non-decreasing
\* squared distance to the query vector, chunks at the same distance in
\* order of ascending chunk id; and if the query vector equals a stored
\* vector, the first chunk returned is at distance 0.
C13_NearestFirst ==
    Retrieved =>
        /\ Len(results) <= 10
        /\ \A r, t \in 1..Len(results) :
              r < t => /\ DistanceOf(results[r]) <= DistanceOf(results[t])
                       /\ DistanceOf(results[r]) = DistanceOf(results[t]) => idxs[r] < idxs[t]
        /\ (\E i \in 1..Len(index) : index[i] = embed_texts(<< question >>)[1])
              => DistanceOf(results[1]) = 0

\* C20: for an index of n >= 1 chunks retrieve returns min(TOP_K, n) chunks,
\* from pairwise distinct positions in [0, n): none twice, none from a
\* placeholder position.
C20_DistinctRealPositions ==
    Retrieved /\ Len(index) >= 1 =>
        /\ Len(results) = min(TOP_K, Len(index))
        /\ \A r \in 1..Len(idxs) : 0 <= idxs[r] /\ idxs[r] < Len(index)
        /\ \A r, t \in 1..Len(idxs) : r # t => idxs[r] # idxs[t]

====
